---------------------------- MODULE Spec2Model ----------------------------
(***************************************************************************)
(* Model of serpens_client_python: SerpensConnectionManager (the HTTP      *)
(* transport, connection.py) and SerpensOpenIDConnection (the credential   *)
(* session layered on it, admin.py).                                       *)
(*                                                                         *)
(* Encoding of Python values:                                              *)
(*   None            the string NoneVal for string attributes, the id      *)
(*                   NoneId for token ids, the record NoToken for the      *)
(*                   token dictionary, NoResponse for a returned None      *)
(*   token dict      [access_token, refresh_token, expires_in]             *)
(*   "Bearer " + a   the pair <<"Bearer ", a>>                             *)
(*   headers dict    a function from the set of present keys to values     *)
(*   datetime        whole seconds since the start of the run              *)
(*   an exception    [exc, response_code, response_body, raised_by]: its   *)
(*                   type, its fields and the call that raised it          *)
(*   bytes body      a sequence of fragments; `phrase in body` is "some    *)
(*                   fragment is the phrase"                               *)
(***************************************************************************)
EXTENDS Integers, Sequences, FiniteSets, TLC

\* ------------------------------------------------------------------ bounds
MaxTime == 3
MaxTokens == 2

\* -------------------------------------------------------- Python's values
NoneVal == "None"
NoneId == 0
NoToken == [access_token |-> NoneId, refresh_token |-> NoneId, expires_in |-> 0]
NoError == [exc |-> "none", response_code |-> 0, response_body |-> <<>>, raised_by |-> "none"]
NoResponse == [status_code |-> NoneVal]

\* Python truthiness of a str-or-None attribute: None and "" are falsy.
Truthy(v) == v # NoneVal /\ v # ""

\* Python truthiness of the token attribute (a dict or None).
TokenTruthy(t) == t # NoToken

\* "Bearer " + access_token
Bearer(a) == <<"Bearer ", a>>

EmptyHeaders == [k \in {} |-> <<>>]

\* headers[key] = value on a dict
\* Variant of DictSet: h.setdefault(key, value), which keeps a value already there
DictSetDefault(h, key, value) ==
    [k \in (DOMAIN h) \cup {key} |-> IF k \in DOMAIN h THEN h[k] ELSE value]

DictSet(h, key, value) == [k \in (DOMAIN h) \cup {key} |-> IF k = key THEN value ELSE h[k]]

\* ------------------------------------------------------ inputs of the run
\* The constructor arguments of the runs: no credentials at all, a username
\* alone, username and password (with and without TOTP), a client secret
\* (alone, and together with username and password), and an empty secret.
Configs ==
    { [username |-> NoneVal, password |-> NoneVal, totp |-> NoneVal, client_secret_key |-> NoneVal],
      [username |-> "alice", password |-> NoneVal, totp |-> NoneVal, client_secret_key |-> NoneVal],
      [username |-> "alice", password |-> "pw", totp |-> NoneVal, client_secret_key |-> NoneVal],
      [username |-> "alice", password |-> "pw", totp |-> "123456", client_secret_key |-> NoneVal],
      [username |-> NoneVal, password |-> NoneVal, totp |-> NoneVal, client_secret_key |-> "s3cret"],
      [username |-> "alice", password |-> "pw", totp |-> "123456", client_secret_key |-> "s3cret"],
      [username |-> "alice", password |-> "pw", totp |-> NoneVal, client_secret_key |-> ""] }

\* Seconds a call of the token endpoint takes
Latencies == {0, 1}

\* expires_in of the token responses (seconds)
LifetimeVals == {3, 300}

\* Token dictionaries a caller may pass to the constructor (access token id 1).
PreTokens == {NoToken} \cup
    { [access_token |-> 1, refresh_token |-> r, expires_in |-> 3] : r \in {NoneId, 1} }

\* Bodies of the error responses of the token endpoint.
ErrorBodies == { <<"{error_description:", "Refresh token expired", "}">>,
                 <<"Token is not active">>,
                 <<"{error_description:", "Session not active", "}">>,
                 <<"session not active">> }

PostErrors ==
    { [exc |-> "SerpensPostError", response_code |-> 400, response_body |-> b,
       raised_by |-> "endpoint"] : b \in ErrorBodies }
    \cup { [exc |-> "SerpensPostError", response_code |-> 500, response_body |-> b,
             raised_by |-> "endpoint"] :
           b \in { <<"Token is not active">>, <<"Internal Server Error">> } }

OtherErrors == { [exc |-> "SerpensConnectionError", response_code |-> 0, response_body |-> <<>>,
                   raised_by |-> "endpoint"] }

\* What a call of the token endpoint client answers: a token dictionary
\* (with or without a refresh token) or an exception.
TokenAnswers == [ok : {TRUE}, has_refresh : BOOLEAN, expires_in : LifetimeVals, err : {NoError}]
    \cup [ok : {FALSE}, has_refresh : {FALSE}, expires_in : {0}, err : PostErrors \cup OtherErrors]

\* What the HTTP session does with a request: a response with a status, or a
\* connection-level exception.
HttpOutcomes == {"200", "404", "ConnectionError"}

Verbs == {"send_get", "send_post", "send_put", "send_delete"}

\* The server_url, timeout, verify and custom_headers arguments of the constructor
\* (None for custom_headers is the empty mapping: no custom header)
ServerURL == "https://sso.example/auth/"

TimeoutArgs == {30, 60}

VerifyArg == "True"

CustomHeaderArgs == { [k \in {} |-> <<>>], [k \in {"X-Request-Source"} |-> <<"batch">>] }

VARIABLES
    phase,              \* "new" before __init__, "ready" after it, "failed" when it raised
    username, password, totp, client_secret_key,   \* admin.py:95-102
    token,              \* self._token
    expires_at,         \* self._expires_at
    headers,            \* self._headers
    base_url,           \* self._base_url
    timeout,            \* self._timeout (NoneId before __init__)
    verify,             \* self._verify ("True", "False", or NoneVal before __init__)
    custom_headers,     \* the custom_headers argument, self.custom_headers
    now,                \* datetime.now()
    issued,             \* number of tokens the token endpoint has issued
    stored_at,          \* the instant of the last assignment to self.token
    last,               \* the last operation: its pre-state, its trace, its result
    heap,               \* the dict objects that headers attributes refer to, by identity
    insts,              \* two SerpensConnectionManager instances: constructed, headers reference
    tlast,              \* the last header operation on one of these instances
    threads             \* two threads calling send_get on one session: position, locals

sessionVars == <<phase, username, password, totp, client_secret_key, token, expires_at,
                 headers, base_url, timeout, verify, custom_headers, now, issued, stored_at,
                 last>>

vars == <<phase, username, password, totp, client_secret_key, token, expires_at,
          headers, base_url, timeout, verify, custom_headers, now, issued, stored_at, last,
          heap, insts, tlast, threads>>

\* ------------------------------------------- the transport's header objects
InstIds == {1, 2}

\* The dict objects: DefaultDict is the one object the default value headers={}
\* of SerpensConnectionManager.__init__ denotes, created once when the function
\* is defined; OwnDict(i) stands for the dict only instance i refers to (the one
\* passed to its constructor, or the new {} of its clean_headers).
DefaultDict == "default {}"

OwnDict(i) == IF i = 1 THEN "dict of 1" ELSE "dict of 2"

DictIds == {DefaultDict} \cup { OwnDict(i) : i \in InstIds }

HeaderKeys == {"Authorization", "X-Custom"}

HeaderValues == { <<"v1">>, <<"v2">> }

\* The headers arguments a caller passes (each a dict of its own)
HeaderArgs == { [k \in {} |-> <<>>], [k \in {"Authorization"} |-> <<"v1">>] }

\* self.headers.pop(key, None)
DictPop(h, key) == [k \in (DOMAIN h) \ {key} |-> h[k]]

ThreadIds == {1, 2}

\* The values of the variables a specification does not use
NoInsts == [i \in InstIds |-> [constructed |-> FALSE, ref |-> DefaultDict]]

NoHeap == [d \in DictIds |-> [k \in {} |-> <<>>]]

NoTLast == [op |-> "none", inst |-> 1, key |-> "", value |-> <<>>, raised |-> NoError,
            pre |-> [i \in InstIds |-> [k \in {} |-> <<>>]]]

NoThreads == [t \in ThreadIds |-> [pc |-> "idle", refresh_token |-> NoneId,
                                   saw_expired |-> FALSE, events |-> <<>>, raised |-> NoError]]


\* ------------------------------------------------------- class attributes
\* The methods an instance of SerpensOpenIDConnection has: those of
\* SerpensConnectionManager and those the subclass defines.
TransportMethods == {"get_param_headers", "clean_headers", "has_param_headers",
                     "set_param_headers", "remove_param_headers",
                     "send_get", "send_post", "send_put", "send_delete"}

\* The verbs SerpensOpenIDConnection overrides.
SessionOverrides == {"send_get", "send_post"}

SessionMethods == TransportMethods \cup SessionOverrides \cup
                  {"get_token", "refresh_token", "_refresh_if_required"}

AttributeError == [exc |-> "AttributeError", response_code |-> 0, response_body |-> <<>>,
                   raised_by |-> "refresh_token"]

\* self.token_lifetime_fraction, in tenths
TokenLifetimeFractionTenths == 9

\* ------------------------------------------------------- the token setter
\* (a variant that leaves the lifetime fraction out)
ExpirySecondsFullLifetime(value) == IF TokenTruthy(value) THEN value.expires_in ELSE 0

\* int(self.token_lifetime_fraction * self.token["expires_in"] if value else 0)
ExpirySeconds(value) ==
    IF TokenTruthy(value) THEN (TokenLifetimeFractionTenths * value.expires_in) \div 10 ELSE 0

\* (a variant that stores the value and leaves _expires_at as it was)
SetTokenKeepsExpiry(c, value) == [c EXCEPT !.token = value, !.stored_at = c.now]

\* token.setter: store the value and recompute _expires_at from datetime.now()
SetToken(c, value) ==
    [c EXCEPT !.token = value,
              !.expires_at = c.now + ExpirySeconds(value),
              !.stored_at = c.now]

\* --------------------------------------------------------- token endpoint
\* The token dictionary of a successful answer, the n-th token issued.
TokenOf(ans, n) ==
    [access_token |-> n,
     refresh_token |-> IF ans.has_refresh THEN n ELSE NoneId,
     expires_in |-> ans.expires_in]

Log(c, e) == [c EXCEPT !.events = Append(c.events, e)]

\* The operations below map a context c (the attributes of the instance, the
\* clock, the trace of the call so far) to the SET of contexts the operation can
\* end in: one per answer of the token endpoint and per duration of the call.

\* (a variant that tries username and password first)
GrantTypePasswordFirst ==
    IF Truthy(username) /\ Truthy(password) THEN <<"password">>
    ELSE IF Truthy(client_secret_key) THEN <<"client_credentials">>
    ELSE <<>>

\* get_token's choice of the grant
GrantType ==
    IF Truthy(client_secret_key) THEN <<"client_credentials">>
    ELSE IF Truthy(username) /\ Truthy(password) THEN <<"password">>
    ELSE <<>>

\* self.token = self.serpens_openid.token(username, password, grant_type, totp)
\* answered by ans after d seconds
AcquireResult(c, ans, d) ==
    LET c2 == Log([c EXCEPT !.now = c.now + d],
                  [ev |-> "acquire", grant_type |-> GrantType, username |-> username,
                   password |-> password, totp |-> totp, failed |-> ~ans.ok])
    IN IF ans.ok
       THEN SetToken([c2 EXCEPT !.issued = c.issued + 1], TokenOf(ans, c.issued + 1))
       ELSE [c2 EXCEPT !.raised = [ans.err EXCEPT !.raised_by = "serpens_openid.token"]]

\* get_token
GetToken(c) ==
    LET c1 == Log(c, [ev |-> "get_token"]) IN
    IF GrantType # <<>>
    THEN { AcquireResult(c1, ans, d) : ans \in TokenAnswers, d \in Latencies }
    ELSE { SetToken(c1, NoToken) }

\* The rejections of a refresh that refresh_token recovers from
ListErrors == {"Refresh token expired", "Token is not active", "Session not active"}

\* err in e.response_body
Contains(body, err) == \E i \in 1..Len(body) : body[i] = err

\* (a variant that tests for status 401)
RecognisedRejection401(e) ==
    /\ e.exc = "SerpensPostError"
    /\ e.response_code = 401
    /\ \E err \in ListErrors : Contains(e.response_body, err)

\* (a variant that does not look at the body)
RecognisedRejectionAnyBody(e) ==
    /\ e.exc = "SerpensPostError"
    /\ e.response_code = 400

\* e.response_code == 400 and any(err in e.response_body for err in list_errors),
\* for an exception the except clause catches
RecognisedRejection(e) ==
    /\ e.exc = "SerpensPostError"
    /\ e.response_code = 400
    /\ \E err \in ListErrors : Contains(e.response_body, err)

\* self.add_param_headers("Authorization", "Bearer " + self.token.get("access_token")):
\* the attribute lookup comes first, then the argument, then the call
AddAuthorizationHeader(c) ==
    IF "add_param_headers" \notin SessionMethods THEN [c EXCEPT !.raised = AttributeError]
    ELSE IF c.token = NoToken THEN [c EXCEPT !.raised = AttributeError]
    ELSE [c EXCEPT !.headers = DictSet(c.headers, "Authorization", Bearer(c.token.access_token))]

\* The try/except of refresh_token: serpens_openid.refresh_token(refresh_token)
\* answered by ans after d seconds
RefreshResult(c, refresh_token, ans, d) ==
    LET c2 == Log([c EXCEPT !.now = c.now + d],
                  [ev |-> "refresh", refresh_token |-> refresh_token,
                   failed |-> ~ans.ok, err |-> ans.err])
    IN IF ans.ok
       THEN { SetToken([c2 EXCEPT !.issued = c.issued + 1], TokenOf(ans, c.issued + 1)) }
       ELSE IF RecognisedRejection(ans.err) THEN GetToken(c2)
       ELSE { [c2 EXCEPT !.raised = [ans.err EXCEPT !.raised_by = "serpens_openid.refresh_token"]] }

\* (a variant that never uses the refresh token)
RefreshTokenAlwaysReacquire(c) ==
    { IF x.raised # NoError THEN x ELSE AddAuthorizationHeader(x) :
      x \in GetToken(Log(c, [ev |-> "refresh_token"])) }

\* refresh_token
RefreshToken(c) ==
    LET refresh_token == IF TokenTruthy(c.token) THEN c.token.refresh_token ELSE NoneId
        c0 == Log(c, [ev |-> "refresh_token"])
        after == IF refresh_token = NoneId THEN GetToken(c0)
                 ELSE UNION { RefreshResult(c0, refresh_token, ans, d) :
                              ans \in TokenAnswers, d \in Latencies }
    IN { IF x.raised # NoError THEN x ELSE AddAuthorizationHeader(x) : x \in after }

\* (a variant with the comparison reversed)
ExpiredReversed(c) == c.now <= c.expires_at

\* datetime.now() >= self.expires_at
Expired(c) == c.now >= c.expires_at

\* _refresh_if_required
RefreshIfRequired(c) ==
    LET c0 == Log(c, [ev |-> "check"]) IN
    IF Expired(c0) THEN RefreshToken(c0) ELSE {c0}

\* -------------------------------------------------------------- transport
\* (a variant without the try/except: the exception of the HTTP session propagates)
TransportVerbPropagates(c, verb, o) ==
    LET c1 == Log(c, [ev |-> "http", verb |-> verb, url |-> c.base_url, headers |-> c.headers,
                      timeout |-> c.timeout, verify |-> c.verify, outcome |-> o])
    IN IF o = "ConnectionError"
       THEN [c1 EXCEPT !.raised = [exc |-> "ConnectionError", response_code |-> 0,
                                   response_body |-> <<>>, raised_by |-> verb]]
       ELSE [c1 EXCEPT !.result = [status_code |-> o]]

\* (a variant that writes a Content-Type header into self.headers)
TransportVerbWritesHeaders(c, verb, o) ==
    LET c1 == Log(c, [ev |-> "http", verb |-> verb, url |-> c.base_url, headers |-> c.headers,
                      timeout |-> c.timeout, verify |-> c.verify, outcome |-> o])
    IN [c1 EXCEPT !.headers = DictSet(c.headers, "Content-Type", <<"text/plain">>),
                  !.result = IF o = "ConnectionError" THEN NoResponse ELSE [status_code |-> o]]

\* SerpensConnectionManager.send_get/send_post/send_put/send_delete: the request
\* carries self.headers; an exception of the HTTP session is caught and the
\* method returns None
TransportVerb(c, verb, o) ==
    LET c1 == Log(c, [ev |-> "http", verb |-> verb, url |-> c.base_url, headers |-> c.headers,
                      timeout |-> c.timeout, verify |-> c.verify, outcome |-> o])
    IN [c1 EXCEPT !.result = IF o = "ConnectionError" THEN NoResponse ELSE [status_code |-> o]]

TransportVerbs(c, verb) == { TransportVerb(c, verb, o) : o \in HttpOutcomes }

\* ---------------------------------------------------------------- session
\* The context at the entry of an operation
Ctx ==
    [token |-> token, expires_at |-> expires_at, headers |-> headers,
     base_url |-> base_url, timeout |-> timeout, verify |-> verify, now |-> now,
     issued |-> issued, stored_at |-> stored_at, events |-> <<>>, raised |-> NoError,
     result |-> NoResponse]

\* SerpensOpenIDConnection.send_get: check, delegate, return r
SessionSendGet(c) ==
    UNION { IF x.raised # NoError THEN {x} ELSE TransportVerbs(x, "send_get") :
            x \in RefreshIfRequired(c) }

\* SerpensOpenIDConnection.send_post: check, delegate; r is not returned
SessionSendPost(c) ==
    UNION { IF x.raised # NoError THEN {x}
            ELSE { [y EXCEPT !.result = NoResponse] : y \in TransportVerbs(x, "send_post") } :
            x \in RefreshIfRequired(c) }

\* send_put and send_delete are inherited from SerpensConnectionManager
SessionSendPut(c) == TransportVerbs(c, "send_put")

SessionSendDelete(c) == TransportVerbs(c, "send_delete")

\* __init__ with the pre-supplied token tok (NoToken: none), entered with the
\* server_url, timeout and verify arguments already assigned (lines 94-104);
\* custom_headers is stored as an attribute of its own (line 115) and
\* super().__init__ is given timeout=60 (line 119)
SessionInit(c, tok) ==
    LET c0 == SetToken(c, tok)
        got == IF c0.token = NoToken THEN GetToken(c0) ELSE {c0}
    IN { IF x.raised # NoError THEN x
         ELSE [x EXCEPT !.timeout = 60, !.headers =
                  IF x.token # NoToken
                  THEN [k \in {"Authorization", "Content-Type"} |->
                          IF k = "Authorization" THEN Bearer(x.token.access_token)
                          ELSE <<"application/json">>]
                  ELSE EmptyHeaders] :
         x \in got }

\* The end of an operation: the attributes it leaves, and the record of the call
Finish(op, arg, c) ==
    /\ c.now <= MaxTime
    /\ c.issued <= MaxTokens
    /\ token' = c.token
    /\ expires_at' = c.expires_at
    /\ headers' = c.headers
    /\ base_url' = c.base_url
    /\ timeout' = c.timeout
    /\ verify' = c.verify
    /\ now' = c.now
    /\ issued' = c.issued
    /\ stored_at' = c.stored_at
    /\ last' = [op |-> op, arg |-> arg,
                pre |-> [token |-> token, expires_at |-> expires_at, headers |-> headers,
                         base_url |-> base_url, timeout |-> timeout, verify |-> verify,
                         now |-> now],
                events |-> c.events, raised |-> c.raised, result |-> c.result]
    /\ UNCHANGED <<username, password, totp, client_secret_key, custom_headers>>
    /\ UNCHANGED <<heap, insts, tlast, threads>>

Init ==
    /\ phase = "new"
    /\ \E cfg \in Configs :
          /\ username = cfg.username
          /\ password = cfg.password
          /\ totp = cfg.totp
          /\ client_secret_key = cfg.client_secret_key
    /\ token = NoToken
    /\ expires_at = 0
    /\ headers = EmptyHeaders
    /\ base_url = NoneVal
    /\ timeout = NoneId
    /\ verify = NoneVal
    /\ custom_headers \in CustomHeaderArgs
    /\ now = 0
    /\ issued = 0
    /\ stored_at = 0
    /\ last = [op |-> "none", arg |-> NoToken,
               pre |-> [token |-> NoToken, expires_at |-> 0, headers |-> EmptyHeaders,
                        base_url |-> NoneVal, timeout |-> NoneId, verify |-> NoneVal, now |-> 0],
               events |-> <<>>, raised |-> NoError, result |-> NoResponse]
    /\ heap = NoHeap
    /\ insts = NoInsts
    /\ tlast = NoTLast
    /\ threads = NoThreads

\* SerpensOpenIDConnection(server_url, username, password, token, totp, ...)
Construct ==
    /\ phase = "new"
    /\ \E tok \in PreTokens, t \in TimeoutArgs :
         \E c \in SessionInit([Ctx EXCEPT !.issued = IF tok = NoToken THEN 0 ELSE 1,
                                          !.base_url = ServerURL, !.timeout = t,
                                          !.verify = VerifyArg], tok) :
            /\ Finish("__init__", tok, c)
            /\ phase' = IF c.raised = NoError THEN "ready" ELSE "failed"

SendGet ==
    /\ phase = "ready"
    /\ \E c \in SessionSendGet(Ctx) : Finish("send_get", NoToken, c)
    /\ UNCHANGED phase

SendPost ==
    /\ phase = "ready"
    /\ \E c \in SessionSendPost(Ctx) : Finish("send_post", NoToken, c)
    /\ UNCHANGED phase

SendPut ==
    /\ phase = "ready"
    /\ \E c \in SessionSendPut(Ctx) : Finish("send_put", NoToken, c)
    /\ UNCHANGED phase

SendDelete ==
    /\ phase = "ready"
    /\ \E c \in SessionSendDelete(Ctx) : Finish("send_delete", NoToken, c)
    /\ UNCHANGED phase

\* Time passes between the calls
Tick ==
    /\ now < MaxTime
    /\ now' = now + 1
    /\ UNCHANGED <<phase, username, password, totp, client_secret_key, token, expires_at,
                   headers, base_url, timeout, verify, custom_headers, issued, stored_at, last,
                   heap, insts, tlast, threads>>

Next == Construct \/ SendGet \/ SendPost \/ SendPut \/ SendDelete \/ Tick

Spec == Init /\ [][Next]_vars

TypeOK ==
    /\ phase \in {"new", "ready", "failed"}
    /\ now \in 0..MaxTime
    /\ issued \in 0..MaxTokens
    /\ DOMAIN headers \subseteq {"Authorization", "Content-Type"}


\* ------------------------------------------------------------ the claims
\* Helpers over the trace of the last operation.
TokenServiceEvents == {"refresh", "acquire"}

Count(es, kinds) == Cardinality({ i \in DOMAIN es : es[i].ev \in kinds })

HttpSent(es) == \E i \in DOMAIN es : es[i].ev = "http"

\* The last operation is a verb call entered at now >= expires_at
EnteredExpired == last.op \in Verbs /\ last.pre.now >= last.pre.expires_at

\* The last operation is a verb call entered with a credential and now < expires_at
EnteredValid ==
    last.op \in Verbs /\ last.pre.token # NoToken /\ last.pre.now < last.pre.expires_at

\* C1: whenever a credential is present, headers["Authorization"] is "Bearer " +
\* the current access token, and the HTTP request of a verb call carries that
\* value, never the one of a replaced token.
C1_AuthorizationInSync ==
    (phase = "ready" /\ token # NoToken) =>
        /\ "Authorization" \in DOMAIN headers
        /\ headers["Authorization"] = Bearer(token.access_token)
        /\ \A i \in DOMAIN last.events :
              last.events[i].ev = "http" =>
                 /\ "Authorization" \in DOMAIN last.events[i].headers
                 /\ last.events[i].headers["Authorization"] = Bearer(token.access_token)

\* C3: a verb call entered with a credential present and now < expires_at makes
\* no call of the token endpoint and leaves the token, expires_at and the
\* headers as they were.
C3_ValidTokenNoTokenServiceCall ==
    EnteredValid =>
        /\ Count(last.events, TokenServiceEvents) = 0
        /\ token = last.pre.token
        /\ expires_at = last.pre.expires_at
        /\ headers = last.pre.headers

\* C3 witness: a send_get entered one second before expiry sent its request
C3_Witness ==
    /\ EnteredValid
    /\ last.op = "send_get"
    /\ last.pre.now + 1 = last.pre.expires_at
    /\ HttpSent(last.events)

\* C8: every verb (GET, POST, PUT, DELETE) runs the expiry check before its
\* HTTP request is sent.
C8_EveryVerbChecksExpiry ==
    last.op \in Verbs =>
        \A i \in DOMAIN last.events :
            last.events[i].ev = "http" =>
                \E j \in 1..(i - 1) : last.events[j].ev = "check"

\* C10 as stated: expires_at is exactly the instant of storing plus
\* fraction * lifetime (0.9 * L, in tenths of a second on both sides).
C10_ExpiryExactProduct ==
    token # NoToken => 10 * (expires_at - stored_at) = 9 * token.expires_in

\* C10 amended: expires_at is the instant of storing plus fraction * lifetime
\* truncated to whole seconds; for a lifetime of 300 s that is +270 s, not +300 s.
C10_ExpiryTruncatedProduct ==
    token # NoToken =>
        /\ expires_at - stored_at = (9 * token.expires_in) \div 10
        /\ token.expires_in = 300 => (expires_at = stored_at + 270 /\ expires_at # stored_at + 300)

\* C10 witness: a token of lifetime 3 s was stored by a refresh or an acquisition
\* after time had passed, and expires 2 s later
C10_Witness ==
    /\ token # NoToken
    /\ token.expires_in = 3
    /\ stored_at > 0
    /\ expires_at = stored_at + 2
    /\ Count(last.events, TokenServiceEvents) > 0


\* The grant context as the claims describe it
SecretConfigured == Truthy(client_secret_key)

UserPassConfigured == Truthy(username) /\ Truthy(password)

GrantUsable == SecretConfigured \/ UserPassConfigured

\* The rejection the claims name: status 400 and one of the three phrases in the body
NamedRejection(e) ==
    /\ e.response_code = 400
    /\ \/ Contains(e.response_body, "Refresh token expired")
       \/ Contains(e.response_body, "Token is not active")
       \/ Contains(e.response_body, "Session not active")

\* The verb call was entered holding a refresh token
HeldRefreshToken == last.pre.token # NoToken /\ last.pre.token.refresh_token # NoneId

\* The refresh of the last call was rejected with a named rejection
RefreshRejected ==
    \E i \in DOMAIN last.events :
        /\ last.events[i].ev = "refresh"
        /\ last.events[i].failed
        /\ NamedRejection(last.events[i].err)

C4_RejectedRefreshFallsBack ==
    last.op \in Verbs =>
        LET es == last.events IN
        \A i \in DOMAIN es :
            (es[i].ev = "refresh" /\ es[i].failed /\ NamedRejection(es[i].err)) =>
                /\ Cardinality({ j \in DOMAIN es : j > i /\ es[j].ev = "get_token" }) = 1
                /\ Cardinality({ j \in DOMAIN es : j > i /\ es[j].ev = "acquire" }) =
                      (IF GrantUsable THEN 1 ELSE 0)
                /\ Count(es, {"refresh"}) = 1
                /\ last.raised.raised_by # "serpens_openid.refresh_token"

\* C4 witness: a refresh rejected with "Session not active" was followed by an
\* acquisition that succeeded and replaced the token
C4_Witness ==
    /\ last.op \in Verbs
    /\ \E i \in DOMAIN last.events :
          /\ last.events[i].ev = "refresh"
          /\ last.events[i].failed
          /\ last.events[i].err.response_code = 400
          /\ Contains(last.events[i].err.response_body, "Session not active")
    /\ \E j \in DOMAIN last.events : last.events[j].ev = "acquire" /\ ~last.events[j].failed
    /\ token # last.pre.token

\* C5: when the refresh of a verb call fails in any other way, that exception
\* reaches the caller unchanged, get_token is not run, no acquire call is made
\* and the HTTP request is not sent.
C5_OtherRefreshFailurePropagates ==
    last.op \in Verbs =>
        LET es == last.events IN
        \A i \in DOMAIN es :
            (es[i].ev = "refresh" /\ es[i].failed /\ ~NamedRejection(es[i].err)) =>
                /\ last.raised = [es[i].err EXCEPT !.raised_by = "serpens_openid.refresh_token"]
                /\ Count(es, {"get_token", "acquire"}) = 0
                /\ ~HttpSent(es)
                /\ token = last.pre.token

\* C5 witness: a refresh failed with status 400 and a body without any of the
\* three phrases, and the call raised
C5_Witness ==
    /\ last.op \in Verbs
    /\ \E i \in DOMAIN last.events :
          /\ last.events[i].ev = "refresh"
          /\ last.events[i].failed
          /\ last.events[i].err.response_code = 400
          /\ ~NamedRejection(last.events[i].err)
    /\ last.raised.exc = "SerpensPostError"


\* Only server_url was given to the constructor
OnlyServerURL ==
    /\ username = NoneVal
    /\ password = NoneVal
    /\ totp = NoneVal
    /\ client_secret_key = NoneVal

\* Some HTTP request of the last call was sent without an Authorization header
SentWithoutAuthorization ==
    \E i \in DOMAIN last.events :
        /\ last.events[i].ev = "http"
        /\ "Authorization" \notin DOMAIN last.events[i].headers

\* C6: a session constructed with only server_url makes no call of the token
\* endpoint at construction; its first verb call (entered in the state the
\* constructor leaves: no token, no headers) makes none either and sends its
\* HTTP request without an Authorization header.
C6_UnauthenticatedFirstRequest ==
    /\ (last.op = "__init__" /\ last.arg = NoToken /\ OnlyServerURL) =>
          /\ Count(last.events, TokenServiceEvents) = 0
          /\ "Authorization" \notin DOMAIN headers
    /\ (last.op \in Verbs /\ OnlyServerURL /\ last.pre.token = NoToken
            /\ last.pre.headers = EmptyHeaders) =>
          /\ Count(last.events, TokenServiceEvents) = 0
          /\ last.raised = NoError
          /\ SentWithoutAuthorization

\* C7: when get_token runs in a verb call with no usable grant context, the
\* token becomes absent and that call, and every later verb call (entered with
\* no token), sends its HTTP request without an Authorization header and does
\* not raise.
C7_NoGrantProceedsUnauthenticated ==
    (/\ last.op \in Verbs
     /\ ~GrantUsable
     /\ \/ Count(last.events, {"get_token"}) > 0
        \/ last.pre.token = NoToken) =>
        /\ token = NoToken
        /\ last.raised = NoError
        /\ SentWithoutAuthorization

\* C9: every acquire call uses client_credentials when a client secret is
\* configured (whatever username and password are), and otherwise password,
\* with the configured username, password and TOTP, which happens only when
\* both username and password are configured; get_token without a usable grant
\* context makes no acquire call and leaves the token absent; the constructor
\* runs get_token exactly when no token is passed, and with a token passed it
\* makes no call of the token endpoint and keeps that token.
C9_GrantSelection ==
    LET es == last.events IN
    /\ \A i \in DOMAIN es :
          es[i].ev = "acquire" =>
             /\ SecretConfigured => es[i].grant_type = <<"client_credentials">>
             /\ ~SecretConfigured =>
                   /\ UserPassConfigured
                   /\ es[i].grant_type = <<"password">>
                   /\ es[i].username = username
                   /\ es[i].password = password
                   /\ es[i].totp = totp
    /\ \A i \in DOMAIN es :
          es[i].ev = "get_token" =>
             IF GrantUsable
             THEN i < Len(es) /\ es[i + 1].ev = "acquire"
             ELSE Count(es, {"acquire"}) = 0 /\ token = NoToken
    /\ (last.op = "__init__" /\ last.arg = NoToken) => Count(es, {"get_token"}) = 1
    /\ (last.op = "__init__" /\ last.arg # NoToken) =>
          /\ Count(es, TokenServiceEvents \cup {"get_token"}) = 0
          /\ token = last.arg

\* C9 witness: constructed with a client secret, a username and a password, the
\* session acquired its token with the client_credentials grant
C9_Witness ==
    /\ last.op = "__init__"
    /\ SecretConfigured
    /\ UserPassConfigured
    /\ \E i \in DOMAIN last.events :
          /\ last.events[i].ev = "acquire"
          /\ last.events[i].grant_type = <<"client_credentials">>
          /\ ~last.events[i].failed
    /\ token # NoToken


\* C11: expires_at is always the instant of the last assignment of the token
\* plus the seconds computed from that token (none for an absent token); an
\* operation that replaces the token recomputes it in the same operation; and
\* while the token is absent, now >= expires_at.
C11_ExpiryDerivedFromStoredToken ==
    /\ expires_at = stored_at + (IF token = NoToken THEN 0 ELSE (9 * token.expires_in) \div 10)
    /\ token = NoToken => now >= expires_at
    /\ (last.op # "none" /\ token # last.pre.token) =>
          (stored_at >= last.pre.now /\ stored_at <= now)

\* C11 witness: a verb call entered with a token ran a re-acquisition that left
\* no token, after time had passed
C11_Witness ==
    /\ last.op \in Verbs
    /\ last.pre.token # NoToken
    /\ token = NoToken
    /\ stored_at > 0
    /\ expires_at = stored_at
    /\ Count(last.events, {"get_token"}) = 1


\* What the transport verb of an "http" event returned: the response, or None
\* when the HTTP session raised
TransportReturned(e) ==
    IF e.outcome = "ConnectionError" THEN NoResponse ELSE [status_code |-> e.outcome]

\* C12: a transport verb whose request fails at connection level raises
\* nothing: the call returns None, the "no response" result.
C12_ConnectionErrorsAreSwallowed ==
    last.op \in Verbs =>
        \A i \in DOMAIN last.events :
            (last.events[i].ev = "http" /\ last.events[i].outcome = "ConnectionError") =>
                /\ last.raised = NoError
                /\ last.result = NoResponse

\* C12 witness: a send_put whose request failed at connection level returned
C12_Witness ==
    /\ last.op = "send_put"
    /\ \E i \in DOMAIN last.events :
          last.events[i].ev = "http" /\ last.events[i].outcome = "ConnectionError"
    /\ last.raised = NoError

\* C14: the value a session verb returns is the response its transport verb
\* returned.
C14_SessionReturnsTransportResponse ==
    last.op \in Verbs =>
        \A i \in DOMAIN last.events :
            last.events[i].ev = "http" => last.result = TransportReturned(last.events[i])

\* C15: the custom headers given to the constructor are in the headers mapping
\* of the session, and every HTTP request it sends carries them.
C15_CustomHeadersSent ==
    /\ phase = "ready" =>
          \A k \in DOMAIN custom_headers :
              k \in DOMAIN headers /\ headers[k] = custom_headers[k]
    /\ \A i \in DOMAIN last.events :
          last.events[i].ev = "http" =>
              \A k \in DOMAIN custom_headers :
                  /\ k \in DOMAIN last.events[i].headers
                  /\ last.events[i].headers[k] = custom_headers[k]

\* C18: a transport verb leaves headers, timeout, verify and base_url as it
\* read them for its request, whether the request got a response or failed at
\* connection level; for send_put and send_delete, which are the transport's
\* verbs themselves, that is the state before the call.
C18_VerbLeavesTransportAttributes ==
    last.op \in Verbs =>
        /\ \A i \in DOMAIN last.events :
              last.events[i].ev = "http" =>
                 /\ headers = last.events[i].headers
                 /\ timeout = last.events[i].timeout
                 /\ verify = last.events[i].verify
                 /\ base_url = last.events[i].url
        /\ last.op \in {"send_put", "send_delete"} =>
              /\ headers = last.pre.headers
              /\ timeout = last.pre.timeout
              /\ verify = last.pre.verify
              /\ base_url = last.pre.base_url

\* C18 witness: a send_delete failed at connection level on a session that
\* holds an Authorization header and the timeout the constructor set
C18_Witness ==
    /\ last.op = "send_delete"
    /\ \E i \in DOMAIN last.events :
          last.events[i].ev = "http" /\ last.events[i].outcome = "ConnectionError"
    /\ "Authorization" \in DOMAIN headers
    /\ timeout = 60


\* The last operation is a verb call that ended with an exception of the token
\* endpoint client (of the refresh, or of the acquisition) reaching the caller
TokenServiceErrorPropagated ==
    /\ last.op \in Verbs
    /\ last.raised.raised_by \in {"serpens_openid.refresh_token", "serpens_openid.token"}

\* C19: after a verb call that ended with an exception of the token endpoint,
\* token, expires_at and the headers are what they were before the call, the
\* session is still expiring (now >= expires_at), and the next verb call runs
\* refresh_token again.
C19_FailedCallLeavesStateAndRetries ==
    [][ TokenServiceErrorPropagated =>
          /\ token = last.pre.token
          /\ expires_at = last.pre.expires_at
          /\ headers = last.pre.headers
          /\ now >= expires_at
          /\ (last'.op \in Verbs /\ last' # last) =>
                \E i \in DOMAIN last'.events : last'.events[i].ev = "refresh_token" ]_vars

\* C19, the part about the state alone
C19_FailedCallLeavesState ==
    TokenServiceErrorPropagated =>
        /\ token = last.pre.token
        /\ expires_at = last.pre.expires_at
        /\ headers = last.pre.headers
        /\ now >= expires_at


\* ===================================================================
\* The header dictionary of SerpensConnectionManager, with object identity
\* ===================================================================

\* self.headers of instance i, as a reader sees it
HeadersOf(i) == heap[insts[i].ref]

\* What every instance's headers look like (unconstructed: nothing)
HeadersView == [i \in InstIds |-> IF insts[i].constructed THEN HeadersOf(i)
                                  ELSE [k \in {} |-> <<>>]]

\* The session's variables, which this specification leaves at their initial value
SessionUnused ==
    /\ Init
    /\ username = NoneVal /\ password = NoneVal /\ totp = NoneVal
    /\ client_secret_key = NoneVal
    /\ custom_headers = [k \in {} |-> <<>>]

TLastOf(op, i, key, value) ==
    [op |-> op, inst |-> i, key |-> key, value |-> value, raised |-> NoError,
     pre |-> HeadersView]

\* SerpensConnectionManager(base_url): headers is not passed, so self.headers
\* becomes a reference to the one default object
TransportConstructDefault(i) ==
    /\ ~insts[i].constructed
    /\ insts' = [insts EXCEPT ![i] = [constructed |-> TRUE, ref |-> DefaultDict]]
    /\ heap' = heap
    /\ tlast' = TLastOf("construct", i, "", <<>>)
    /\ UNCHANGED <<sessionVars, threads>>

\* SerpensConnectionManager(base_url, headers=h): self.headers refers to the caller's dict
TransportConstructWith(i) ==
    /\ ~insts[i].constructed
    /\ \E h \in HeaderArgs :
          /\ insts' = [insts EXCEPT ![i] = [constructed |-> TRUE, ref |-> OwnDict(i)]]
          /\ heap' = [heap EXCEPT ![OwnDict(i)] = h]
    /\ tlast' = TLastOf("construct", i, "", <<>>)
    /\ UNCHANGED <<sessionVars, threads>>

\* set_param_headers(key, value): self.headers[key] = value, on the object in place
SetParamHeaders(i) ==
    /\ insts[i].constructed
    /\ \E key \in HeaderKeys, value \in HeaderValues :
          /\ heap' = [heap EXCEPT ![insts[i].ref] = DictSet(@, key, value)]
          /\ tlast' = TLastOf("set_param_headers", i, key, value)
    /\ UNCHANGED <<insts, sessionVars, threads>>

\* remove_param_headers(key): self.headers.pop(key, None), on the object in place
RemoveParamHeaders(i) ==
    /\ insts[i].constructed
    /\ \E key \in HeaderKeys :
          /\ heap' = [heap EXCEPT ![insts[i].ref] = DictPop(@, key)]
          /\ tlast' = TLastOf("remove_param_headers", i, key, <<>>)
    /\ UNCHANGED <<insts, sessionVars, threads>>

\* clean_headers(): self.headers = {}, a new object bound to this instance only
CleanHeaders(i) ==
    /\ insts[i].constructed
    /\ insts' = [insts EXCEPT ![i].ref = OwnDict(i)]
    /\ heap' = [heap EXCEPT ![OwnDict(i)] = [k \in {} |-> <<>>]]
    /\ tlast' = TLastOf("clean_headers", i, "", <<>>)
    /\ UNCHANGED <<sessionVars, threads>>

InitTransport == SessionUnused

NextTransport ==
    \E i \in InstIds :
        \/ TransportConstructDefault(i)
        \/ TransportConstructWith(i)
        \/ SetParamHeaders(i)
        \/ RemoveParamHeaders(i)
        \/ CleanHeaders(i)

SpecTransport == InitTransport /\ [][NextTransport]_vars

\* The instance the last header operation acted on: its headers before and after
TPre == tlast.pre[tlast.inst]

TPost == HeadersOf(tlast.inst)

SameElsewhere(h, g, key) ==
    /\ (DOMAIN h) \ {key} = (DOMAIN g) \ {key}
    /\ \A k \in (DOMAIN h) \ {key} : h[k] = g[k]

\* C16: the headers of an instance map each key to one value: set_param_headers(k, v)
\* leaves k mapped to v, whatever k was mapped to before, and changes no other key;
\* remove_param_headers of a key takes that key away and of an absent key changes
\* nothing, and neither raises; clean_headers leaves no entry.
C16_HeaderDictionarySemantics ==
    /\ tlast.op = "set_param_headers" =>
          /\ tlast.key \in DOMAIN TPost
          /\ TPost[tlast.key] = tlast.value
          /\ SameElsewhere(TPost, TPre, tlast.key)
          /\ tlast.raised = NoError
    /\ tlast.op = "remove_param_headers" =>
          /\ tlast.key \notin DOMAIN TPost
          /\ SameElsewhere(TPost, TPre, tlast.key)
          /\ (tlast.key \notin DOMAIN TPre => TPost = TPre)
          /\ tlast.raised = NoError
    /\ tlast.op = "clean_headers" => DOMAIN TPost = {}

\* C16 happens: a key that held v1 is set to v2 and now holds v2
C16_Witness ==
    /\ tlast.op = "set_param_headers"
    /\ tlast.key \in DOMAIN TPre
    /\ TPre[tlast.key] # tlast.value
    /\ TPost[tlast.key] = tlast.value

\* C16 happens, the other case: a key that is not there is removed
C16_WitnessRemoveAbsent ==
    /\ tlast.op = "remove_param_headers"
    /\ tlast.key \notin DOMAIN TPre
    /\ DOMAIN TPre # {}

\* C20: a header operation on one instance leaves the headers of every other
\* constructed instance as they were.
C20_InstancesDoNotShareHeaders ==
    tlast.op \in {"set_param_headers", "remove_param_headers", "clean_headers"} =>
        \A j \in InstIds \ {tlast.inst} :
            insts[j].constructed => HeadersOf(j) = tlast.pre[j]

\* C20, the instances that were given a dictionary of their own: these are isolated
C20_OwnDictionaryIsIsolated ==
    tlast.op \in {"set_param_headers", "remove_param_headers", "clean_headers"} =>
        \A j \in InstIds \ {tlast.inst} :
            (insts[j].constructed /\ insts[j].ref # DefaultDict) => HeadersOf(j) = tlast.pre[j]


\* ===================================================================
\* Two threads calling send_get on one SerpensOpenIDConnection
\* ===================================================================
\* The code takes no lock: between the statements of one thread's send_get the
\* other thread may run. A thread's send_get is cut where it can be preempted
\* with an effect: after the comparison of _refresh_if_required, while the
\* request to the token endpoint is under way, and before the HTTP request.

ThreadCommit(t, c, pc) ==
    /\ token' = c.token
    /\ expires_at' = c.expires_at
    /\ headers' = c.headers
    /\ now' = c.now
    /\ issued' = c.issued
    /\ stored_at' = c.stored_at
    /\ threads' = [threads EXCEPT ![t] = [@ EXCEPT !.pc = pc, !.events = @ \o c.events,
                                                   !.raised = c.raised]]
    /\ UNCHANGED <<phase, username, password, totp, client_secret_key, base_url, timeout,
                   verify, custom_headers, last, heap, insts, tlast>>

\* send_get entered; _refresh_if_required evaluates datetime.now() >= self.expires_at
ThreadCheck(t) ==
    /\ phase = "ready"
    /\ threads[t].pc = "idle"
    /\ LET c0 == Log(Ctx, [ev |-> "check"]) IN
         threads' = [threads EXCEPT ![t] =
                        [@ EXCEPT !.pc = IF Expired(c0) THEN "refresh_token" ELSE "send",
                                  !.saw_expired = (now >= expires_at),
                                  !.events = c0.events]]
    /\ UNCHANGED <<sessionVars, heap, insts, tlast>>

\* (a variant that waits while another thread's call of the token endpoint is under way)
ThreadInvokeExclusive(t) ==
    /\ threads[t].pc = "refresh_token"
    /\ \A u \in ThreadIds \ {t} : threads[u].pc # "in_endpoint"
    /\ threads' = [threads EXCEPT ![t] =
                      [@ EXCEPT !.pc = "in_endpoint",
                                !.refresh_token = IF TokenTruthy(token) THEN token.refresh_token
                                                  ELSE NoneId,
                                !.events = @ \o <<[ev |-> "refresh_token"]>>]]
    /\ UNCHANGED <<sessionVars, heap, insts, tlast>>

\* refresh_token reads the refresh token of self.token and starts the call of
\* the token endpoint (get_token's call when there is no refresh token)
ThreadInvoke(t) ==
    /\ threads[t].pc = "refresh_token"
    /\ threads' = [threads EXCEPT ![t] =
                      [@ EXCEPT !.pc = "in_endpoint",
                                !.refresh_token = IF TokenTruthy(token) THEN token.refresh_token
                                                  ELSE NoneId,
                                !.events = @ \o <<[ev |-> "refresh_token"]>>]]
    /\ UNCHANGED <<sessionVars, heap, insts, tlast>>

\* The token endpoint answers: the rest of refresh_token
ThreadComplete(t) ==
    /\ threads[t].pc = "in_endpoint"
    /\ LET rt == threads[t].refresh_token
           after == IF rt = NoneId THEN GetToken(Ctx)
                    ELSE UNION { RefreshResult(Ctx, rt, ans, d) :
                                 ans \in TokenAnswers, d \in Latencies }
       IN \E x \in after :
            LET c == IF x.raised # NoError THEN x ELSE AddAuthorizationHeader(x)
            IN ThreadCommit(t, c, IF c.raised # NoError THEN "raised" ELSE "send")

\* return super().send_get(path, **kwargs)
ThreadSend(t) ==
    /\ threads[t].pc = "send"
    /\ \E c \in TransportVerbs(Ctx, "send_get") : ThreadCommit(t, c, "done")

\* A session of a user with a password; each thread calls send_get once
InitThreads ==
    /\ Init
    /\ username = "alice" /\ password = "pw" /\ totp = NoneVal
    /\ client_secret_key = NoneVal
    /\ custom_headers = [k \in {} |-> <<>>]

NextThreads ==
    \/ Construct
    \/ Tick
    \/ \E t \in ThreadIds :
          \/ ThreadCheck(t)
          \/ ThreadInvoke(t)
          \/ ThreadComplete(t)
          \/ ThreadSend(t)

SpecThreads == InitThreads /\ [][NextThreads]_vars

\* C17: nothing holds a thread back that found the token expired: a thread that
\* entered send_get with now >= expires_at goes on into refresh_token and calls
\* the token endpoint itself, and it can start that call at any moment, whatever
\* the other thread is doing or has done since the check.
C17_EveryExpiredCheckInvokesTokenService ==
    \A t \in ThreadIds :
        /\ (threads[t].pc # "idle" /\ threads[t].saw_expired) =>
               \/ threads[t].pc \in {"refresh_token", "in_endpoint"}
               \/ Count(threads[t].events, TokenServiceEvents) >= 1
        /\ threads[t].pc = "refresh_token" => ENABLED ThreadInvoke(t)

\* C17 happens: both threads have passed the check and both calls of the token
\* endpoint are under way at the same time
C17_Witness ==
    \A t \in ThreadIds : threads[t].pc = "in_endpoint" /\ threads[t].saw_expired

\* C17 happens, the other order: one thread has stored a new token that is
\* not expired, and the other, which had passed the check before, still calls
C17_WitnessStaleCheck ==
    \E t, u \in ThreadIds :
        /\ threads[t].pc = "raised" /\ Count(threads[t].events, TokenServiceEvents) >= 1
        /\ now < expires_at
        /\ threads[u].pc = "in_endpoint"

=============================================================================
